---- MODULE Spec2Model ----
(***************************************************************************)
(* Model of pipeline.py: the sequential Transcribe -> Tag -> Analyze       *)
(* pipeline.  The state is the durable storage the pipeline reads and      *)
(* writes (FLAC files, GCS blobs, transcripts, tags files, the progress    *)
(* ledger, the analysis index) together with the position of the one       *)
(* running process inside main / process_episode.  A run may be killed at  *)
(* any step; a file that was opened for writing and not yet closed is      *)
(* "torn" (it exists, its content is a prefix of what was being written).  *)
(***************************************************************************)
EXTENDS Integers, Sequences, FiniteSets, TLC

\* ---- bounds of the model ------------------------------------------------
NumItems == 2      \* episodes listed in episodes_metadata.json
MaxRuns  == 2      \* invocations of main explored
MaxKills == 1      \* process kills explored
ShortLen == 8      \* length of a short service response ("not json")
LongLen  == 501    \* length of a service response longer than RawLimit
MaxPolls == 181    \* polls of one transcription job explored
HalfList == 13     \* distinct tags of one long tag list
AggCalls == 2      \* calls of build_analysis_index over one set of files

\* ---- program constants --------------------------------------------------
RawLimit == 500    \* text[:500] kept in the error variant
RateDelay == 2     \* time.sleep(2), "Rate limit for Gemini"
EpisodeDelay == 1  \* time.sleep(1), "Small delay between episodes"
TopTech == 25      \* tech_sorted[:25]
TopBusiness == 20  \* business_sorted[:20]
TopTopics == 20    \* topics_sorted[:20]
PollInterval == 10     \* time.sleep(10) between two polls
ResultTimeout == 1800  \* operation.result(timeout=1800), "30 min timeout"

Items  == 1..NumItems
Stages == {"Convert", "Upload", "Transcribe", "Annotate"}

VARIABLES
    metadata,    \* METADATA_FILE.exists()
    raw,         \* raw[i]: the item's local mp3 is resolvable and exists
    flac,        \* flac[i]       : "absent" | "partial" | "ok"
    blob,        \* blob[i]       : "absent" | "partial" | "ok" (what was uploaded)
    transcript,  \* transcript[i] : "absent" | "torn" | "ok"
    tags,        \* tags[i]       : [st, form, raw]
    ledger,      \* PROGRESS_FILE : [st, transcribed, tagged, started_at]
    index,       \* analysis/index.json : [st, generated_at, analyzed]
    pc,          \* position of the running process, "idle" when none runs
    cur,         \* loop variable of main (1-based position in episodes)
    progress,    \* the in-memory progress dict
    resp,        \* the annotation service's response held by tag_episode
    run,         \* number of runs started; also the wall clock
    kills,       \* number of kills so far
    lastRun,     \* how the previous run ended
    ev,          \* what the last step did: [kind, item, stage, ret]
    fails,       \* executor failures of the current / last run
    completed,   \* completed[i]: stages that ever succeeded for item i
    retry,       \* retry[i]: stages that failed and were not yet re-attempted
    curDone,     \* stages that succeeded for the item being processed
    resume,      \* [item, stages]: what the last kill interrupted
    startDone,   \* this run started with every artifact present after a complete run
    idx0,        \* the index as it was when this run started
    sinceCall,   \* seconds the process has slept since the annotation
                 \* service was last called, counted up to RateDelay
    tpc,         \* transcribe_from_gcs on its own: "off" | "polling" |
                 \* "returned" | "raised"
    polls,       \* sleeps of the polling loop so far
    doneAt,      \* number of polls after which operation.done() is true
    aFiles,      \* build_analysis_index on its own: the tags files
    aOrder,      \* the order in which the last directory scan listed them
    aOut,        \* the analysis the last call returned
    aPrev,       \* the analysis the call before it returned
    aCalls       \* calls so far

disk   == <<flac, blob, transcript, tags, ledger, index>>
pollv  == <<tpc, polls, doneAt>>
aggv   == <<aFiles, aOrder, aOut, aPrev, aCalls>>
env    == <<metadata, raw, pollv, aggv>>
proc   == <<pc, cur, progress, resp>>
hist   == <<run, kills, lastRun, ev, fails, completed, retry, curDone, resume,
            startDone, idx0>>
vars   == <<metadata, raw, flac, blob, transcript, tags, ledger,
            index, pc, cur, progress, resp, run, kills, lastRun, ev, fails,
            completed, retry, curDone, resume, startDone, idx0, sinceCall,
            tpc, polls, doneAt, aFiles, aOrder, aOut, aPrev, aCalls>>
pipe   == <<metadata, raw, disk, proc, hist, sinceCall>>

\* ---- values -------------------------------------------------------------
NoTags     == [st |-> "absent", form |-> "none", raw |-> 0]
TornTags   == [st |-> "torn",   form |-> "none", raw |-> 0]
NoProgress == [transcribed |-> <<>>, tagged |-> <<>>, started_at |-> 0]
NoLedger   == [st |-> "absent", transcribed |-> <<>>, tagged |-> <<>>,
               started_at |-> 0]
NoIndex    == [st |-> "absent", generated_at |-> 0, analyzed |-> <<>>]
NoResp     == [form |-> "none", len |-> 0]
NoEv       == [kind |-> "none", item |-> 0, stage |-> "none", ret |-> "none"]
NoResume   == [item |-> 0, stages |-> {}]
NoAnalysis == [st |-> "none", episodes_analyzed |-> 0,
               top_tech_themes |-> <<>>, top_business_themes |-> <<>>,
               top_topics |-> <<>>, episodes |-> <<>>]

Event(k, i, s, r) == [kind |-> k, item |-> i, stage |-> s, ret |-> r]

\* Responses of the generative model, described after lines 174-178 have
\* stripped white space and code fences: what json.loads makes of the text
\* and how long the text is.
Responses == [form : {"object", "nonobject", "garbage"}, len : {ShortLen, LongLen}]

Min(a, b) == IF a < b THEN a ELSE b

Range(s) == {s[k] : k \in 1..Len(s)}

\* time.sleep, lines 263 and 372: the time slept since the last call of
\* the annotation service after secs more seconds, starting from base.
Slept(base, secs) == Min(base + secs, RateDelay)

\* ---- pure functions -----------------------------------------------------
\* tag_episode with an except clause that returns an empty annotation
\* instead of the error variant.
tag_episode_coerce(r) ==
    IF r.form = "garbage"
    THEN [form |-> "object", raw |-> 0]
    ELSE [form |-> r.form, raw |-> 0]

\* tag_episode, lines 180-183: json.loads(text), or the error variant with
\* the first 500 characters of the text.
tag_episode(r) ==
    IF r.form = "garbage"
    THEN [form |-> "error", raw |-> Min(r.len, RawLimit)]
    ELSE [form |-> r.form, raw |-> 0]

\* load_progress, lines 44-49.
load_progress(l, now) ==
    IF l.st = "ok"
    THEN [transcribed |-> l.transcribed, tagged |-> l.tagged,
          started_at |-> l.started_at]
    ELSE [transcribed |-> <<>>, tagged |-> <<>>, started_at |-> now]

\* save_progress, lines 52-55: open(PROGRESS_FILE, "w") truncates the file,
\* json.dump then writes it; st says how far the write got.
save_progress(p, st) ==
    [st |-> st, transcribed |-> p.transcribed, tagged |-> p.tagged,
     started_at |-> p.started_at]

\* The stage records with status failed that a ledger holds.  The ledger
\* has the keys transcribed, tagged and started_at only (line 49).
FailedRecords(l) == {}

\* json.load of a tags file followed by lines 283-306 raises for a torn
\* file (JSONDecodeError) and for a JSON value that is not an object
\* (TypeError / AttributeError).
Unreadable(t) == t.st = "torn" \/ (t.st = "ok" /\ t.form = "nonobject")

\* TAGS_DIR.glob("*.json"), line 279: the directory scan.  An unchanged
\* directory is listed in the same order every time; the model lists the
\* files in the order of their items.
ScanOrder == [k \in 1..NumItems |-> k]

\* episodes_summary of build_analysis_index, lines 279-306: one entry per
\* tags file without an "error" key, in scan order.
Analyzed(tg) ==
    SelectSeq(ScanOrder, LAMBDA i : tg[i].st = "ok" /\ tg[i].form = "object")

\* ---- initial state ------------------------------------------------------
Init ==
    /\ metadata \in BOOLEAN
    /\ raw \in [Items -> BOOLEAN]
    /\ flac = [i \in Items |-> "absent"]
    /\ blob = [i \in Items |-> "absent"]
    /\ transcript = [i \in Items |-> "absent"]
    /\ tags = [i \in Items |-> NoTags]
    /\ ledger = NoLedger
    /\ index = NoIndex
    /\ pc = "idle"
    /\ cur = 0
    /\ progress = NoProgress
    /\ resp = NoResp
    /\ run = 0
    /\ kills = 0
    /\ lastRun = "none"
    /\ ev = NoEv
    /\ fails = {}
    /\ completed = [i \in Items |-> {}]
    /\ retry = [i \in Items |-> {}]
    /\ curDone = {}
    /\ resume = NoResume
    /\ startDone = FALSE
    /\ idx0 = NoIndex
    /\ sinceCall = RateDelay
    /\ tpc = "off" /\ polls = 0 /\ doneAt = 0
    /\ aFiles = <<>> /\ aOrder = <<>> /\ aCalls = 0
    /\ aOut = NoAnalysis /\ aPrev = NoAnalysis

\* Every resolvable item has a transcript file and a tags file.
AllArtifacts ==
    \A i \in Items : raw[i] => (transcript[i] # "absent" /\ tags[i].st # "absent")

\* ---- end of a run -------------------------------------------------------
\* The process is gone: memory is lost, durable storage stays.
EndRun(how) ==
    /\ pc' = "idle"
    /\ cur' = 0
    /\ progress' = NoProgress
    /\ resp' = NoResp
    /\ curDone' = {}
    /\ lastRun' = how
    /\ sinceCall' = RateDelay

\* process_episode returned (or raised into main's except): main goes on
\* with the next episode, lines 359-372.
NextEpisode ==
    /\ pc' = "loop"
    /\ cur' = cur + 1
    /\ resp' = NoResp
    /\ curDone' = {}

\* ---- main ---------------------------------------------------------------
\* MainNoMetadata without the return of line 342: main goes on with an
\* empty episode list and builds the index.
MainNoMetadataFallsThrough ==
    /\ pc = "idle" /\ run < MaxRuns
    /\ ~metadata
    /\ run' = run + 1
    /\ progress' = load_progress(ledger, run + 1)
    /\ pc' = "loop"
    /\ cur' = NumItems + 1
    /\ ev' = Event("start", 0, "none", "none")
    /\ fails' = {}
    /\ startDone' = FALSE
    /\ idx0' = index
    /\ UNCHANGED <<env, sinceCall,
                   disk, resp, kills, lastRun, completed, retry, curDone,
                   resume>>

\* main, lines 340-342: no metadata, return.
MainNoMetadata ==
    /\ pc = "idle" /\ run < MaxRuns
    /\ ~metadata
    /\ run' = run + 1
    /\ EndRun("nometa")
    /\ ev' = Event("nometa", 0, "none", "none")
    /\ fails' = {}
    /\ startDone' = FALSE
    /\ idx0' = index
    /\ resume' = NoResume
    /\ UNCHANGED <<env, disk, kills, completed, retry>>

\* main, line 356: load_progress raises JSONDecodeError on a torn ledger;
\* nothing catches it.
MainLoadCrash ==
    /\ pc = "idle" /\ run < MaxRuns
    /\ metadata
    /\ ledger.st = "torn"
    /\ run' = run + 1
    /\ EndRun("crashed")
    /\ ev' = Event("crash", 0, "load_progress", "raised")
    /\ fails' = {}
    /\ startDone' = FALSE
    /\ idx0' = index
    /\ resume' = NoResume
    /\ UNCHANGED <<env, disk, kills, completed, retry>>

\* main, lines 334-358: directories, metadata, bucket, progress loaded.
MainStart ==
    /\ pc = "idle" /\ run < MaxRuns
    /\ metadata
    /\ ledger.st # "torn"
    /\ run' = run + 1
    /\ progress' = load_progress(ledger, run + 1)
    /\ pc' = "loop"
    /\ cur' = 1
    /\ ev' = Event("start", 0, "none", "none")
    /\ fails' = {}
    /\ startDone' = (lastRun = "complete" /\ AllArtifacts)
    /\ idx0' = index
    /\ UNCHANGED <<env, sinceCall,
                   disk, resp, kills, lastRun, completed, retry, curDone,
                   resume>>

\* ---- process_episode ----------------------------------------------------
InEpisode == pc = "loop" /\ cur \in Items

\* A stage executor failed for the current item: process_episode returns
\* ret (or raises) without having written anything, main moves on.
Fail(s, how, ret) ==
    /\ ev' = Event("fail", cur, s, ret)
    /\ fails' = fails \cup {<<cur, s, how>>}
    /\ retry' = [retry EXCEPT ![cur] = @ \cup {s}]
    /\ NextEpisode

\* A stage executor is started for the current item.
Invoke(s) ==
    /\ ev' = Event("invoke", cur, s, "none")
    /\ retry' = [retry EXCEPT ![cur] = @ \ {s}]

\* A stage's artifact was produced for the current item.
Done(s) ==
    /\ ev' = Event("done", cur, s, "none")
    /\ completed' = [completed EXCEPT ![cur] = @ \cup {s}]
    /\ curDone' = curDone \cup {s}

\* EpisodeNoAudio without the return of line 200: the missing file is
\* handed to convert_to_flac.
EpisodeNoAudioConverts ==
    /\ InEpisode
    /\ ~raw[cur]
    /\ pc' = "converting"
    /\ Invoke("Convert")
    /\ UNCHANGED <<env, sinceCall,
                   disk, cur, progress, resp, run, kills, lastRun, fails,
                   completed, curDone, resume, startDone, idx0>>

\* process_episode, lines 188-200: no audio file, return False.
EpisodeNoAudio ==
    /\ InEpisode
    /\ ~raw[cur]
    /\ ev' = Event("noaudio", cur, "none", "False")
    /\ NextEpisode
    /\ sinceCall' = Slept(sinceCall, EpisodeDelay)
    /\ UNCHANGED <<env, disk, progress, run, kills, lastRun, fails, completed,
                   retry, resume, startDone, idx0>>

\* process_episode, lines 206-209: the transcript file exists, it is read
\* and Convert, Upload and Transcribe are skipped.
EpisodeTranscriptExists ==
    /\ InEpisode
    /\ raw[cur]
    /\ transcript[cur] # "absent"
    /\ pc' = "tag"
    /\ ev' = Event("skip", cur, "Transcribe", "none")
    /\ UNCHANGED <<env, sinceCall,
                   disk, cur, progress, resp, run, kills, lastRun, fails,
                   completed, retry, curDone, resume, startDone, idx0>>

\* convert_to_flac, lines 72-74: the FLAC file exists, it is returned.
ConvertSkip ==
    /\ InEpisode
    /\ raw[cur]
    /\ transcript[cur] = "absent"
    /\ flac[cur] # "absent"
    /\ pc' = "upload"
    /\ ev' = Event("skip", cur, "Convert", "none")
    /\ UNCHANGED <<env, sinceCall,
                   disk, cur, progress, resp, run, kills, lastRun, fails,
                   completed, retry, curDone, resume, startDone, idx0>>

\* ConvertInvoke without the flac_path.exists() test of line 73.
ConvertInvokeAlways ==
    /\ InEpisode
    /\ raw[cur]
    /\ transcript[cur] = "absent"
    /\ pc' = "converting"
    /\ Invoke("Convert")
    /\ UNCHANGED <<env, sinceCall,
                   disk, cur, progress, resp, run, kills, lastRun, fails,
                   completed, curDone, resume, startDone, idx0>>

\* convert_to_flac, lines 76-84: ffmpeg is started.
ConvertInvoke ==
    /\ InEpisode
    /\ raw[cur]
    /\ transcript[cur] = "absent"
    /\ flac[cur] = "absent"
    /\ pc' = "converting"
    /\ Invoke("Convert")
    /\ UNCHANGED <<env, sinceCall,
                   disk, cur, progress, resp, run, kills, lastRun, fails,
                   completed, curDone, resume, startDone, idx0>>

\* convert_to_flac, line 88: ffmpeg exited with 0.
ConvertOk ==
    /\ pc = "converting"
    /\ flac' = [flac EXCEPT ![cur] = "ok"]
    /\ pc' = "upload"
    /\ Done("Convert")
    /\ UNCHANGED <<env, sinceCall,
                   blob, transcript, tags, ledger, index, cur, progress,
                   resp, run, kills, lastRun, fails, retry, resume, startDone,
                   idx0>>

\* convert_to_flac, lines 85-87 and process_episode, lines 215-217: ffmpeg
\* exited with an error, None is returned and process_episode returns
\* False.  ffmpeg may have created its output file before it failed;
\* nothing removes it.
ConvertFail ==
    /\ pc = "converting"
    /\ \E left \in {"absent", "partial"} : flac' = [flac EXCEPT ![cur] = left]
    /\ Fail("Convert", "returned", "False")
    /\ sinceCall' = Slept(sinceCall, EpisodeDelay)
    /\ UNCHANGED <<env, blob, transcript, tags, ledger, index, progress, run,
                   kills, lastRun, completed, resume, startDone, idx0>>

\* convert_to_flac, line 84 and main, lines 363-369: subprocess.run raises
\* (ffmpeg cannot be started); process_episode has no handler around line
\* 214, main's except catches it and continues.
ConvertRaise ==
    /\ pc = "converting"
    /\ Fail("Convert", "raised", "raised")
    /\ UNCHANGED <<env, sinceCall,
                   disk, progress, run, kills, lastRun, completed, resume,
                   startDone, idx0>>

\* upload_to_gcs, lines 96-98: the blob exists, its URI is returned.
UploadSkip ==
    /\ pc = "upload"
    /\ blob[cur] # "absent"
    /\ pc' = "transcribe"
    /\ ev' = Event("skip", cur, "Upload", "none")
    /\ UNCHANGED <<env, sinceCall,
                   disk, cur, progress, resp, run, kills, lastRun, fails,
                   completed, retry, curDone, resume, startDone, idx0>>

\* upload_to_gcs, lines 100-107: upload_from_filename is started.
UploadInvoke ==
    /\ pc = "upload"
    /\ blob[cur] = "absent"
    /\ pc' = "uploading"
    /\ Invoke("Upload")
    /\ UNCHANGED <<env, sinceCall,
                   disk, cur, progress, resp, run, kills, lastRun, fails,
                   completed, curDone, resume, startDone, idx0>>

\* upload_to_gcs, line 108: the blob now holds what the FLAC file held.
UploadOk ==
    /\ pc = "uploading"
    /\ blob' = [blob EXCEPT ![cur] = flac[cur]]
    /\ pc' = "transcribe"
    /\ Done("Upload")
    /\ UNCHANGED <<env, sinceCall,
                   flac, transcript, tags, ledger, index, cur, progress,
                   resp, run, kills, lastRun, fails, retry, resume, startDone,
                   idx0>>

\* process_episode, lines 240-245: the handler removes the FLAC file and
\* returns False.
ExceptCleanup(s) ==
    /\ flac' = [flac EXCEPT ![cur] = "absent"]
    /\ Fail(s, "raised", "False")
    /\ sinceCall' = Slept(sinceCall, EpisodeDelay)
    /\ UNCHANGED <<env, blob, transcript, tags, ledger, index, progress, run,
                   kills, lastRun, completed, resume, startDone, idx0>>

\* upload_to_gcs raises inside the try of line 219.
UploadRaise ==
    /\ pc = "uploading"
    /\ ExceptCleanup("Upload")

\* transcribe_from_gcs, line 126: long_running_recognize is submitted.
TranscribeInvoke ==
    /\ pc = "transcribe"
    /\ pc' = "transcribing"
    /\ Invoke("Transcribe")
    /\ UNCHANGED <<env, sinceCall,
                   disk, cur, progress, resp, run, kills, lastRun, fails,
                   completed, curDone, resume, startDone, idx0>>

\* transcribe_from_gcs, lines 135-141 and process_episode, line 226: a
\* non-empty transcript came back.
TranscribeOk ==
    /\ pc = "transcribing"
    /\ pc' = "write_transcript"
    /\ ev' = Event("returned", cur, "Transcribe", "none")
    /\ UNCHANGED <<env, sinceCall,
                   disk, cur, progress, resp, run, kills, lastRun, fails,
                   completed, retry, curDone, resume, startDone, idx0>>

\* TranscribeEmpty without the return of line 228: the empty transcript is
\* reported and processing goes on with tagging.
TranscribeEmptyContinues ==
    /\ pc = "transcribing"
    /\ ev' = Event("fail", cur, "Transcribe", "False")
    /\ fails' = fails \cup {<<cur, "Transcribe", "empty">>}
    /\ retry' = [retry EXCEPT ![cur] = @ \cup {"Transcribe"}]
    /\ pc' = "tag"
    /\ UNCHANGED <<env, sinceCall,
                   disk, cur, progress, resp, run, kills, lastRun,
                   completed, curDone, resume, startDone, idx0>>

\* process_episode, lines 226-228: empty transcript, return False; the
\* handler of line 240 does not run.
TranscribeEmpty ==
    /\ pc = "transcribing"
    /\ Fail("Transcribe", "empty", "False")
    /\ sinceCall' = Slept(sinceCall, EpisodeDelay)
    /\ UNCHANGED <<env, disk, progress, run, kills, lastRun, completed, resume,
                   startDone, idx0>>

\* TranscribeRaise without the handler of line 240 and without main's
\* handler: the exception ends the run.
TranscribeRaiseAborts ==
    /\ pc = "transcribing"
    /\ fails' = fails \cup {<<cur, "Transcribe", "raised">>}
    /\ retry' = [retry EXCEPT ![cur] = @ \cup {"Transcribe"}]
    /\ EndRun("crashed")
    /\ ev' = Event("crash", cur, "Transcribe", "raised")
    /\ resume' = NoResume
    /\ UNCHANGED <<env, disk, run, kills, completed, startDone, idx0>>

\* transcribe_from_gcs raises inside the try of line 219.
TranscribeRaise ==
    /\ pc = "transcribing"
    /\ ExceptCleanup("Transcribe")

\* WriteTranscriptOpen with lines 237-238 executed before line 230: the
\* ledger lists the item before its transcript is written.
WriteTranscriptOpenLedgerFirst ==
    /\ pc = "write_transcript"
    /\ progress' = [progress EXCEPT !.transcribed = Append(@, cur)]
    /\ ledger' = save_progress(progress', "ok")
    /\ transcript' = [transcript EXCEPT ![cur] = "torn"]
    /\ pc' = "writing_transcript"
    /\ ev' = Event("open", cur, "Transcribe", "none")
    /\ UNCHANGED <<env, sinceCall,
                   flac, blob, tags, index, cur, resp, run, kills,
                   lastRun, fails, completed, retry, curDone, resume,
                   startDone, idx0>>

\* process_episode, line 230: write_text opens (creates, truncates) the
\* transcript file.
WriteTranscriptOpen ==
    /\ pc = "write_transcript"
    /\ transcript' = [transcript EXCEPT ![cur] = "torn"]
    /\ pc' = "writing_transcript"
    /\ ev' = Event("open", cur, "Transcribe", "none")
    /\ UNCHANGED <<env, sinceCall,
                   flac, blob, tags, ledger, index, cur, progress, resp,
                   run, kills, lastRun, fails, completed, retry, curDone,
                   resume, startDone, idx0>>

\* process_episode, line 230: write_text has written and closed the file.
WriteTranscriptDone ==
    /\ pc = "writing_transcript"
    /\ transcript' = [transcript EXCEPT ![cur] = "ok"]
    /\ pc' = "unlink_flac"
    /\ Done("Transcribe")
    /\ UNCHANGED <<env, sinceCall,
                   flac, blob, tags, ledger, index, cur, progress, resp,
                   run, kills, lastRun, fails, retry, resume, startDone, idx0>>

\* process_episode, lines 234-235: the FLAC file is removed.
UnlinkFlac ==
    /\ pc = "unlink_flac"
    /\ flac' = [flac EXCEPT ![cur] = "absent"]
    /\ pc' = "save_transcribed"
    /\ ev' = Event("unlink", cur, "Convert", "none")
    /\ UNCHANGED <<env, sinceCall,
                   blob, transcript, tags, ledger, index, cur, progress,
                   resp, run, kills, lastRun, fails, completed, retry, curDone,
                   resume, startDone, idx0>>

\* process_episode, lines 237-238: the base name is appended to
\* progress["transcribed"] and save_progress opens the ledger.
SaveTranscribedOpen ==
    /\ pc = "save_transcribed"
    /\ progress' = [progress EXCEPT !.transcribed = Append(@, cur)]
    /\ ledger' = save_progress(progress', "torn")
    /\ pc' = "saving_transcribed"
    /\ ev' = Event("open", cur, "ledger", "none")
    /\ UNCHANGED <<env, sinceCall,
                   flac, blob, transcript, tags, index, cur, resp, run,
                   kills, lastRun, fails, completed, retry, curDone, resume,
                   startDone, idx0>>

\* save_progress, line 55: the ledger is written and closed.
SaveTranscribedDone ==
    /\ pc = "saving_transcribed"
    /\ ledger' = save_progress(progress, "ok")
    /\ pc' = "tag"
    /\ ev' = Event("saved", cur, "Transcribe", "none")
    /\ UNCHANGED <<env, sinceCall,
                   flac, blob, transcript, tags, index, cur, progress,
                   resp, run, kills, lastRun, fails, completed, retry, curDone,
                   resume, startDone, idx0>>

\* TagSkip without the tags_file.exists() test of line 249: the annotation
\* service is called although the tags file is there.
TagSkipAnnotatesAgain ==
    /\ pc = "tag"
    /\ tags[cur].st # "absent"
    /\ pc' = "annotating"
    /\ Invoke("Annotate")
    /\ UNCHANGED <<env, sinceCall,
                   disk, cur, progress, resp, run, kills, lastRun, fails,
                   completed, curDone, resume, startDone, idx0>>

\* process_episode, lines 248-250 and 267: the tags file exists, return
\* True.
TagSkip ==
    /\ pc = "tag"
    /\ tags[cur].st # "absent"
    /\ ev' = Event("skip", cur, "Annotate", "True")
    /\ NextEpisode
    /\ sinceCall' = Slept(sinceCall, EpisodeDelay)
    /\ UNCHANGED <<env, disk, progress, run, kills, lastRun, fails, completed,
                   retry, resume, startDone, idx0>>

\* tag_episode, line 171: generate_content is called.
TagInvoke ==
    /\ pc = "tag"
    /\ tags[cur].st = "absent"
    /\ pc' = "annotating"
    /\ Invoke("Annotate")
    /\ UNCHANGED <<env, sinceCall,
                   disk, cur, progress, resp, run, kills, lastRun, fails,
                   completed, curDone, resume, startDone, idx0>>

\* AnnotateRaise with the ledger update of lines 259-260 moved into the
\* handler: the item is recorded as tagged although tagging failed.
AnnotateRaiseRecords ==
    /\ pc = "annotating"
    /\ progress' = [progress EXCEPT !.tagged = Append(@, cur)]
    /\ ledger' = save_progress(progress', "ok")
    /\ Fail("Annotate", "raised", "True")
    /\ sinceCall' = Slept(0, EpisodeDelay)
    /\ UNCHANGED <<env, flac, blob, transcript, tags, index, run, kills,
                   lastRun, completed, resume, startDone, idx0>>

\* tag_episode raises (generate_content or response.text); process_episode,
\* lines 264-267: the handler prints and process_episode returns True.
AnnotateRaise ==
    /\ pc = "annotating"
    /\ Fail("Annotate", "raised", "True")
    /\ sinceCall' = Slept(0, EpisodeDelay)
    /\ UNCHANGED <<env, disk, progress, run, kills, lastRun, completed, resume,
                   startDone, idx0>>

\* tag_episode, lines 171-183: the service answered with r and tag_episode
\* returns tag_episode(r).
AnnotateReturn ==
    /\ pc = "annotating"
    /\ \E r \in Responses : resp' = r
    /\ pc' = "write_tags"
    /\ ev' = Event("returned", cur, "Annotate", "none")
    /\ sinceCall' = 0
    /\ UNCHANGED <<env, disk, cur, progress, run, kills, lastRun, fails,
                   completed, retry, curDone, resume, startDone, idx0>>

\* process_episode, line 255: open(tags_file, "w") creates the tags file.
WriteTagsOpen ==
    /\ pc = "write_tags"
    /\ tags' = [tags EXCEPT ![cur] = TornTags]
    /\ pc' = "writing_tags"
    /\ ev' = Event("open", cur, "Annotate", "none")
    /\ UNCHANGED <<env, sinceCall,
                   flac, blob, transcript, ledger, index, cur, progress,
                   resp, run, kills, lastRun, fails, completed, retry, curDone,
                   resume, startDone, idx0>>

\* process_episode, line 256: json.dump(tags, f) whatever tag_episode
\* returned, the file is closed.
WriteTagsDone ==
    /\ pc = "writing_tags"
    /\ tags' = [tags EXCEPT ![cur] =
                  [st |-> "ok", form |-> tag_episode(resp).form,
                   raw |-> tag_episode(resp).raw]]
    /\ pc' = "save_tagged"
    /\ Done("Annotate")
    /\ UNCHANGED <<env, sinceCall,
                   flac, blob, transcript, ledger, index, cur, progress,
                   resp, run, kills, lastRun, fails, retry, resume, startDone,
                   idx0>>

\* process_episode, lines 259-260: the base name is appended to
\* progress["tagged"] and save_progress opens the ledger.
SaveTaggedOpen ==
    /\ pc = "save_tagged"
    /\ progress' = [progress EXCEPT !.tagged = Append(@, cur)]
    /\ ledger' = save_progress(progress', "torn")
    /\ pc' = "saving_tagged"
    /\ ev' = Event("open", cur, "ledger", "none")
    /\ UNCHANGED <<env, sinceCall,
                   flac, blob, transcript, tags, index, cur, resp, run,
                   kills, lastRun, fails, completed, retry, curDone, resume,
                   startDone, idx0>>

\* save_progress, line 55, then process_episode, lines 263 and 267: the
\* ledger is written, the rate-limit sleep passes, return True.
SaveTaggedDone ==
    /\ pc = "saving_tagged"
    /\ ledger' = save_progress(progress, "ok")
    /\ ev' = Event("saved", cur, "Annotate", "True")
    /\ NextEpisode
    /\ sinceCall' = Slept(sinceCall, RateDelay + EpisodeDelay)
    /\ UNCHANGED <<env, flac, blob, transcript, tags, index, progress, run,
                   kills, lastRun, fails, completed, retry, resume, startDone,
                   idx0>>

\* ---- build_analysis_index -----------------------------------------------
AtIndex == pc = "loop" /\ cur = NumItems + 1

\* build_analysis_index, lines 279-306: a tags file that json.load or the
\* dict operations cannot handle raises; main has no handler around line
\* 375, the run dies.
BuildIndexCrash ==
    /\ AtIndex
    /\ \E i \in Items : Unreadable(tags[i])
    /\ EndRun("crashed")
    /\ ev' = Event("crash", 0, "build_analysis_index", "raised")
    /\ resume' = NoResume
    /\ UNCHANGED <<env, disk, run, kills, fails, completed, retry, startDone,
                   idx0>>

\* BuildIndexOpen that starts from the entries of the existing index and
\* adds to them instead of starting from empty collections (lines 274-277).
BuildIndexOpenIncremental ==
    /\ AtIndex
    /\ \A i \in Items : ~Unreadable(tags[i])
    /\ index' = [st |-> "torn", generated_at |-> run,
                 analyzed |-> index.analyzed \o
                     SelectSeq(Analyzed(tags),
                               LAMBDA i : i \notin Range(index.analyzed))]
    /\ pc' = "writing_index"
    /\ ev' = Event("open", 0, "index", "none")
    /\ UNCHANGED <<env, sinceCall,
                   flac, blob, transcript, tags, ledger, cur, progress,
                   resp, run, kills, lastRun, fails, completed, retry, curDone,
                   resume, startDone, idx0>>

\* build_analysis_index, lines 279-322: every tags file was read, index.json
\* is opened for writing.
BuildIndexOpen ==
    /\ AtIndex
    /\ \A i \in Items : ~Unreadable(tags[i])
    /\ index' = [st |-> "torn", generated_at |-> run,
                 analyzed |-> Analyzed(tags)]
    /\ pc' = "writing_index"
    /\ ev' = Event("open", 0, "index", "none")
    /\ UNCHANGED <<env, sinceCall,
                   flac, blob, transcript, tags, ledger, cur, progress,
                   resp, run, kills, lastRun, fails, completed, retry, curDone,
                   resume, startDone, idx0>>

\* build_analysis_index, lines 323-331 and main, lines 377-379: the index is
\* written, the run ends.
BuildIndexDone ==
    /\ pc = "writing_index"
    /\ index' = [index EXCEPT !.st = "ok"]
    /\ EndRun("complete")
    /\ ev' = Event("complete", 0, "index", "none")
    /\ resume' = NoResume
    /\ UNCHANGED <<env, flac, blob, transcript, tags, ledger, run, kills,
                   fails, completed, retry, startDone, idx0>>

\* ---- interruption -------------------------------------------------------
\* The process is killed.  Files keep the state the last completed write
\* left them in; an ffmpeg that was running may or may not have created its
\* output file.
Kill ==
    /\ pc # "idle"
    /\ kills < MaxKills
    /\ kills' = kills + 1
    /\ IF pc = "converting"
       THEN \E left \in {"absent", "partial"} : flac' = [flac EXCEPT ![cur] = left]
       ELSE flac' = flac
    /\ EndRun("killed")
    /\ ev' = Event("kill", 0, "none", "none")
    /\ resume' = [item |-> IF cur \in Items THEN cur ELSE 0, stages |-> curDone]
    /\ UNCHANGED <<env, blob, transcript, tags, ledger, index, run, fails,
                   completed, retry, startDone, idx0>>

Next ==
    \/ MainNoMetadata \/ MainLoadCrash \/ MainStart
    \/ EpisodeNoAudio \/ EpisodeTranscriptExists
    \/ ConvertSkip \/ ConvertInvoke \/ ConvertOk \/ ConvertFail \/ ConvertRaise
    \/ UploadSkip \/ UploadInvoke \/ UploadOk \/ UploadRaise
    \/ TranscribeInvoke \/ TranscribeOk \/ TranscribeEmpty \/ TranscribeRaise
    \/ WriteTranscriptOpen \/ WriteTranscriptDone \/ UnlinkFlac
    \/ SaveTranscribedOpen \/ SaveTranscribedDone
    \/ TagSkip \/ TagInvoke \/ AnnotateRaise \/ AnnotateReturn
    \/ WriteTagsOpen \/ WriteTagsDone \/ SaveTaggedOpen \/ SaveTaggedDone
    \/ BuildIndexCrash \/ BuildIndexOpen \/ BuildIndexDone
    \/ Kill

Spec == Init /\ [][Next]_vars

\* ---- transcribe_from_gcs on its own ---------------------------------------
\* The pipeline at rest, for the specifications that exercise one function.
PipelineAtRest ==
    /\ metadata = TRUE
    /\ raw = [i \in Items |-> TRUE]
    /\ flac = [i \in Items |-> "absent"]
    /\ blob = [i \in Items |-> "absent"]
    /\ transcript = [i \in Items |-> "absent"]
    /\ tags = [i \in Items |-> NoTags]
    /\ ledger = NoLedger
    /\ index = NoIndex
    /\ pc = "idle"
    /\ cur = 0
    /\ progress = NoProgress
    /\ resp = NoResp
    /\ run = 0
    /\ kills = 0
    /\ lastRun = "none"
    /\ ev = NoEv
    /\ fails = {}
    /\ completed = [i \in Items |-> {}]
    /\ retry = [i \in Items |-> {}]
    /\ curDone = {}
    /\ resume = NoResume
    /\ startDone = FALSE
    /\ idx0 = NoIndex
    /\ sinceCall = RateDelay

\* elapsed of line 131, taking each sleep to last its nominal time.
Elapsed == polls * PollInterval

\* transcribe_from_gcs, line 126: the job is submitted; the recognition
\* service finishes it after doneAt polls, or not within the polls explored.
InitPoll ==
    /\ PipelineAtRest
    /\ aFiles = <<>> /\ aOrder = <<>> /\ aCalls = 0
    /\ aOut = NoAnalysis /\ aPrev = NoAnalysis
    /\ tpc = "polling"
    /\ polls = 0
    /\ doneAt \in 0..(MaxPolls + 1)

\* transcribe_from_gcs, lines 130-133: operation.done() is false, the
\* elapsed time is printed, the loop sleeps and tests again.  The model
\* stops following the loop after MaxPolls sleeps.
PollSleep ==
    /\ tpc = "polling"
    /\ polls < doneAt
    /\ polls < MaxPolls
    /\ polls' = polls + 1
    /\ UNCHANGED <<pipe, aggv, tpc, doneAt>>

\* transcribe_from_gcs, lines 130 and 135-141: operation.done() is true,
\* result() returns at once and the transcript is returned.
PollFinish ==
    /\ tpc = "polling"
    /\ polls >= doneAt
    /\ tpc' = "returned"
    /\ UNCHANGED <<pipe, aggv, polls, doneAt>>

\* transcribe_from_gcs, lines 130 and 135: operation.done() or result()
\* raises (the job failed, the network is down).
PollRaise ==
    /\ tpc = "polling"
    /\ tpc' = "raised"
    /\ UNCHANGED <<pipe, aggv, polls, doneAt>>

NextPoll == PollSleep \/ PollFinish \/ PollRaise

SpecPoll == InitPoll /\ [][NextPoll]_vars

\* ---- build_analysis_index on its own -----------------------------------
\* A tag text: a word and the letter case it is written in.
Tag(w, c) == [w |-> w, c |-> c]

\* str.lower() without its effect: the text is kept as written.
LowerKeepsCase(t) == t

\* str.lower(), lines 287, 292 and 297.
Lower(t) == [t EXCEPT !.c = "lower"]

\* The tag lists of the annotations explored.
Empty == <<>>
Single == <<Tag(1, "Title")>>
Pair == <<Tag(2, "Title"), Tag(1, "lower")>>
Run(a, n) == [k \in 1..n |-> Tag(a + k - 1, "lower")]
LowHalf == Run(3, HalfList)
HighHalf == Run(HalfList + 3, HalfList) \o <<Tag(2 * HalfList + 2, "Title")>>

Categories == {"tech_tags", "business_tags", "key_topics"}

\* The contents of a tags file: what tag_episode stored (lines 181-183
\* and 254-256).  An object without one of the keys counts as one with an
\* empty list (data.get(key, []), lines 286-296).  ErrorAnnotation is an
\* object with an "error" key: the variant of line 183, or a response of
\* the generative model that has such a key next to its tag lists.
Object(t, b, k) ==
    [form |-> "object", tech_tags |-> t, business_tags |-> b,
     key_topics |-> k]
ErrorAnnotation == [Object(Single, Empty, Pair) EXCEPT !.form = "error"]
NonObject == [Object(Empty, Empty, Empty) EXCEPT !.form = "nonobject"]
Annotations ==
    {ErrorAnnotation, NonObject,
     Object(Empty, Empty, Empty),
     Object(Single, Pair, Empty),
     Object(Pair, Single, Single),
     Object(LowHalf, LowHalf, HighHalf),
     Object(HighHalf, HighHalf, LowHalf),
     Object(Pair, HighHalf, Pair)}

\* The orders in which a directory scan can list the files.
Orders ==
    {o \in [1..NumItems -> Items] : \A i \in Items : \E k \in 1..NumItems :
        o[k] = i}

\* all_tech_tags[tag_lower] = all_tech_tags.get(tag_lower, 0) + 1, lines
\* 288, 293 and 298.  A dict is the sequence of its items in insertion
\* order.
Bump(d, k) ==
    IF \E j \in 1..Len(d) : d[j][1] = k
    THEN LET p == CHOOSE j \in 1..Len(d) : d[j][1] = k
         IN  SubSeq(d, 1, p - 1) \o <<<<k, d[p][2] + 1>>>>
                 \o SubSeq(d, p + 1, Len(d))
    ELSE Append(d, <<k, 1>>)

\* The loops of lines 286-298 over the tags l: the dict after the last tag
\* is the dict after the tags before it, with the last tag counted.
RECURSIVE CountList(_)
CountList(l) ==
    IF l = <<>> THEN <<>>
    ELSE Bump(CountList(SubSeq(l, 1, Len(l) - 1)), Lower(l[Len(l)]))

\* The tags the loops of lines 279-298 go through for one category, in
\* the order they go through them: files with an "error" key are passed
\* over.
RECURSIVE Scanned(_, _, _)
Scanned(files, order, cat) ==
    IF order = <<>> THEN <<>>
    ELSE LET a == files[Head(order)]
         IN  (IF a.form = "error" THEN <<>> ELSE a[cat])
                 \o Scanned(files, Tail(order), cat)

\* An insertion that puts an item in front of the items of its own count.
InsertBeforeTies(s, e) ==
    LET n == Cardinality({j \in 1..Len(s) : s[j][2] > e[2]})
    IN  SubSeq(s, 1, n) \o <<e>> \o SubSeq(s, n + 1, Len(s))

\* sorted(..., key=lambda x: -x[1]), lines 309-311, one item at a time:
\* the sort is stable, an item goes behind the items whose count is not
\* smaller.
Insert(s, e) ==
    LET n == Cardinality({j \in 1..Len(s) : s[j][2] >= e[2]})
    IN  SubSeq(s, 1, n) \o <<e>> \o SubSeq(s, n + 1, Len(s))

RECURSIVE Sorted(_)
Sorted(d) ==
    IF d = <<>> THEN <<>>
    ELSE Insert(Sorted(SubSeq(d, 1, Len(d) - 1)), d[Len(d)])

\* The slices of lines 316-318.
Top(s, n) == SubSeq(s, 1, Min(n, Len(s)))

Ranked(files, order, cat, n) ==
    Top(Sorted(CountList(Scanned(files, order, cat))), n)

\* episodes_summary, lines 301-306: the files without an "error" key, in
\* the order of the scan.
Summaries(files, order) ==
    SelectSeq(order, LAMBDA i : files[i].form # "error")

\* build_analysis_index, lines 270-331, as a function of the files and of
\* the order in which the scan lists them.
build_analysis_index(files, order) ==
    IF \E i \in Range(order) : files[i].form = "nonobject"
    THEN [NoAnalysis EXCEPT !.st = "raised"]
    ELSE [st |-> "ok",
          episodes_analyzed |-> Len(Summaries(files, order)),
          top_tech_themes |-> Ranked(files, order, "tech_tags", TopTech),
          top_business_themes |->
              Ranked(files, order, "business_tags", TopBusiness),
          top_topics |-> Ranked(files, order, "key_topics", TopTopics),
          episodes |-> Summaries(files, order)]

InitAgg ==
    /\ PipelineAtRest
    /\ tpc = "off" /\ polls = 0 /\ doneAt = 0
    /\ aFiles \in [Items -> Annotations]
    /\ aOrder = <<>>
    /\ aOut = NoAnalysis
    /\ aPrev = NoAnalysis
    /\ aCalls = 0

\* One call of build_analysis_index; the scan lists the files in some
\* order.
AggBuild ==
    /\ aCalls < AggCalls
    /\ \E o \in Orders :
          /\ aOrder' = o
          /\ aOut' = build_analysis_index(aFiles, o)
    /\ aPrev' = aOut
    /\ aCalls' = aCalls + 1
    /\ UNCHANGED <<pipe, pollv, aFiles>>

NextAgg == AggBuild

SpecAgg == InitAgg /\ [][NextAgg]_vars

\* ---- properties ---------------------------------------------------------
\* The artifact of stage s for item i on durable storage.
Artifact(i, s) ==
    CASE s = "Convert"    -> flac[i]
      [] s = "Upload"     -> blob[i]
      [] s = "Transcribe" -> transcript[i]
      [] s = "Annotate"   -> tags[i].st

\* The stages a skip event passes over: an existing transcript skips
\* Convert, Upload and Transcribe at once (line 207).
Skipped(e) ==
    IF e.stage = "Transcribe" THEN {"Convert", "Upload", "Transcribe"}
    ELSE {e.stage}

Artifacts == <<flac, blob, transcript, tags, ledger>>

\* The aggregate index without its generated_at time stamp.
IndexBody(x) == [st |-> x.st, analyzed |-> x.analyzed]

\* C1 as stated: in any run after the first, with no interruption, no stage
\* executor is invoked, no artifact changes and the index written is
\* identical to the index of the run before, whatever the first run's
\* outcome was.
C1_Original ==
    [][(run' >= 2 /\ kills' = 0) =>
         /\ ev'.kind # "invoke"
         /\ Artifacts' = Artifacts
         /\ (ev'.kind = "complete" => index' = idx0')]_vars

\* C1 amended: a run that starts after a complete run, with a transcript
\* file and a tags file present for every resolvable item, invokes no stage
\* executor, changes no FLAC file, blob, transcript, tags file or ledger,
\* and writes an index equal to the previous one but for generated_at.
C1_Idempotent ==
    [][startDone' =>
         /\ ev'.kind # "invoke"
         /\ Artifacts' = Artifacts
         /\ (ev'.kind = "complete" => IndexBody(index') = IndexBody(idx0'))]_vars

C1_Witness ==
    /\ startDone
    /\ ev.kind = "complete"
    /\ index.analyzed # <<>>
    /\ idx0.st = "ok"
    /\ index.generated_at # idx0.generated_at

\* C2: an executor is never invoked for an (item, stage) whose artifact
\* exists on durable storage, and after a kill the next run invokes no
\* executor for a stage that had completed for the interrupted item.
C2_NoReinvoke ==
    ev.kind = "invoke" =>
        /\ Artifact(ev.item, ev.stage) = "absent"
        /\ (ev.item = resume.item => ev.stage \notin resume.stages)

C2_Witness ==
    /\ lastRun = "killed"
    /\ ev.kind = "invoke"
    /\ ev.stage = "Transcribe"
    /\ ev.item = resume.item
    /\ resume.stages = {"Convert", "Upload"}

\* C3: a stage is skipped only when its complete, valid artifact is on
\* durable storage.
C3_SkipOnlyValid ==
    ev.kind = "skip" => Artifact(ev.item, ev.stage) = "ok"

\* C4: a run that was not killed, in which exactly one executor failed and
\* that was a raising Transcribe, and whose tags files are all readable
\* annotations, ends complete with a fresh index and with a transcript and
\* a tags file for every other resolvable item.
C4_ErrorIsolation ==
    (/\ pc = "idle"
     /\ lastRun \in {"complete", "crashed"}
     /\ \E j \in Items : fails = {<<j, "Transcribe", "raised">>}
     /\ \A i \in Items : ~Unreadable(tags[i]))
    =>
    (/\ lastRun = "complete"
     /\ index.st = "ok"
     /\ index.generated_at = run
     /\ \A i \in Items :
           (raw[i] /\ <<i, "Transcribe", "raised">> \notin fails) =>
               (transcript[i] # "absent" /\ tags[i].st = "ok"))

C4_Witness ==
    /\ pc = "idle"
    /\ lastRun = "complete"
    /\ fails = {<<1, "Transcribe", "raised">>}
    /\ transcript[1] = "absent"
    /\ tags[2].st = "ok" /\ tags[2].form = "object"
    /\ index.analyzed = <<2>>

C6_LedgerImpliesArtifact ==
    /\ \A i \in Range(ledger.transcribed) \cup Range(progress.transcribed) :
          transcript[i] = "ok"
    /\ \A i \in Range(ledger.tagged) \cup Range(progress.tagged) :
          tags[i].st = "ok"

C6_Witness ==
    /\ lastRun = "killed"
    /\ pc = "idle"
    /\ ledger.st = "ok"
    /\ Len(ledger.transcribed) = 2
    /\ Len(ledger.tagged) = 1

\* C7: no executor is invoked for an (item, stage) that has completed
\* successfully before (stated for runs that were never interrupted).
C7_DoneAbsorbing ==
    (kills = 0 /\ ev.kind = "invoke") => ev.stage \notin completed[ev.item]

\* C8: a failed stage leaves no artifact, and the next time the item comes
\* to that stage the stage is attempted, not skipped (stated for runs that
\* were never interrupted).
C8_FailedRetried ==
    kills = 0 =>
        /\ \A i \in Items : \A s \in retry[i] : Artifact(i, s) = "absent"
        /\ ev.kind = "skip" => Skipped(ev) \cap retry[ev.item] = {}

\* C9: when the response is not parseable, the tags file written for the
\* item is the error variant holding the response text up to RawLimit
\* characters.
C9_ErrorVariantStored ==
    (ev.kind = "done" /\ ev.stage = "Annotate" /\ resp.form = "garbage") =>
        tags[ev.item] = [st |-> "ok", form |-> "error",
                         raw |-> IF resp.len <= RawLimit THEN resp.len
                                 ELSE RawLimit]

C9_Witness ==
    /\ ev.kind = "done" /\ ev.stage = "Annotate"
    /\ resp.form = "garbage" /\ resp.len > RawLimit
    /\ tags[ev.item].form = "error"
    /\ tags[ev.item].raw = RawLimit

\* C10: an item whose tags file is the error variant is not recorded as
\* tagged, and Annotate is not skipped for it (stated for runs that were
\* never interrupted).
C10_ErrorResumable ==
    kills = 0 =>
        /\ \A i \in Items :
              (tags[i].st = "ok" /\ tags[i].form = "error") =>
                  i \notin Range(ledger.tagged) \cup Range(progress.tagged)
        /\ (ev.kind = "skip" /\ ev.stage = "Annotate") =>
              tags[ev.item].form # "error"

\* C11: build_analysis_index never raises, whatever tags files the pipeline
\* left on disk, and an index it wrote lists no item whose annotation is
\* the error variant.
C11_IndexNeverRaises ==
    /\ ~(ev.kind = "crash" /\ ev.stage = "build_analysis_index")
    /\ ev.kind = "complete" =>
          \A i \in Range(index.analyzed) : tags[i].form # "error"

\* C15: an index that build_analysis_index has just written lists exactly
\* the items whose tags file on disk is a non-error annotation, whatever the
\* index held before.
C15_IndexFromScratch ==
    ev.kind = "complete" =>
        /\ index.st = "ok"
        /\ index.generated_at = run
        /\ index.analyzed = Analyzed(tags)
        /\ Range(index.analyzed) =
              {i \in Items : tags[i].st = "ok" /\ tags[i].form = "object"}

C15_Witness ==
    /\ ev.kind = "complete"
    /\ idx0.st = "ok"
    /\ idx0.analyzed = <<2>>
    /\ index.analyzed = <<1, 2>>
    /\ tags[1].form = "object"

\* C17: while the metadata file is absent no step changes durable storage,
\* no executor is invoked and no process stays running.
C17_NoMetadataAborts ==
    [][~metadata =>
         /\ disk' = disk
         /\ pc' = "idle"
         /\ ev'.kind \notin {"invoke", "done", "open", "saved", "complete"}]_vars

C17_Witness ==
    /\ ~metadata
    /\ ev.kind = "nometa"
    /\ lastRun = "nometa"
    /\ run = 2
    /\ ledger.st = "absent" /\ index.st = "absent"

\* C18: when Transcribe returned an empty result, no transcript file exists
\* for the item, the item is not in the transcribed list, process_episode
\* has returned False, Annotate is not invoked for the item in that run, and
\* Transcribe is not skipped for the item afterwards.
C18_EmptyIsFailure ==
    /\ \A i \in Items :
          <<i, "Transcribe", "empty">> \in fails =>
              /\ transcript[i] = "absent"
              /\ i \notin Range(ledger.transcribed) \cup Range(progress.transcribed)
              /\ ~(ev.kind = "invoke" /\ ev.stage = "Annotate" /\ ev.item = i)
              /\ (pc # "idle" => cur > i)
    /\ (ev.kind = "fail" /\ <<ev.item, "Transcribe", "empty">> \in fails) =>
          (ev.ret = "False" /\ pc = "loop")
    /\ (ev.kind = "skip" /\ "Transcribe" \in Skipped(ev)) =>
          "Transcribe" \notin retry[ev.item]

\* The run after an empty result: the FLAC file and the blob of the first
\* run are reused and Transcribe is about to be invoked again.
C18_Witness ==
    /\ kills = 0
    /\ run = 2
    /\ pc = "transcribe"
    /\ curDone = {}
    /\ "Transcribe" \in retry[cur]
    /\ flac[cur] = "ok" /\ blob[cur] = "ok"
    /\ completed[cur] = {"Convert", "Upload"}

\* C19: an item without a resolvable raw file makes process_episode return
\* False, no executor is invoked for it and it gets no artifact.
C19_NoAudioIsFailure ==
    /\ ev.kind = "noaudio" => (ev.ret = "False" /\ pc = "loop" /\ cur = ev.item + 1)
    /\ ev.kind = "invoke" => raw[ev.item]
    /\ \A i \in Items :
          ~raw[i] => /\ flac[i] = "absent" /\ blob[i] = "absent"
                     /\ transcript[i] = "absent" /\ tags[i].st = "absent"

C19_Witness ==
    /\ ev.kind = "noaudio"
    /\ ev.item = 2
    /\ raw[1] /\ ~raw[2]
    /\ tags[1].st = "ok"

\* C20: the annotation service is called only when at least RateDelay
\* seconds have been slept since its previous call returned or raised.
C20_RateLimit ==
    (ev.kind = "invoke" /\ ev.stage = "Annotate") => sinceCall >= RateDelay

\* C16: the polling loop does not go on once the elapsed time has passed
\* the ceiling of ResultTimeout seconds.
C16_PollCeiling ==
    tpc = "polling" => Elapsed <= ResultTimeout

\* C21: a return of process_episode from a call that converted or reused
\* a FLAC file (Upload or Transcribe failed, whether by raising or by an
\* empty result, or Transcribe succeeded in this call) leaves no FLAC file
\* for the item.
C21_FlacRemoved ==
    [][(/\ ev'.ret \in {"False", "True"}
        /\ \/ (ev'.kind = "fail" /\ ev'.stage \in {"Upload", "Transcribe"})
           \/ "Transcribe" \in curDone)
          => flac'[cur] = "absent"]_vars

\* ---- properties of build_analysis_index ---------------------------------
\* The ranked list of a category in an analysis, and its length limit.
OutOf(x, cat) ==
    IF cat = "tech_tags" THEN x.top_tech_themes
    ELSE IF cat = "business_tags" THEN x.top_business_themes
    ELSE x.top_topics

TopOf(cat) ==
    IF cat = "tech_tags" THEN TopTech
    ELSE IF cat = "business_tags" THEN TopBusiness
    ELSE TopTopics

\* The tags of category cat in the order the last scan met them, files
\* with an "error" key left out.
Met(cat) == Scanned(aFiles, aOrder, cat)

\* The places of the word w, in any letter case, among the tags st.
Occurrences(st, w) == {p \in 1..Len(st) : st[p].w = w}

Occ(st, w) == Cardinality(Occurrences(st, w))

Words(st) == {st[p].w : p \in 1..Len(st)}

FirstSeen(st, w) ==
    CHOOSE p \in 1..Len(st) :
        st[p].w = w /\ \A q \in 1..(p - 1) : st[q].w # w

\* Word v ranks before word w: it is more frequent, or as frequent and
\* met first by the scan.
RanksBefore(st, v, w) ==
    \/ Occ(st, v) > Occ(st, w)
    \/ Occ(st, v) = Occ(st, w) /\ FirstSeen(st, v) < FirstSeen(st, w)

Listed(L) == {L[j][1].w : j \in 1..Len(L)}

\* C12: two calls of build_analysis_index over the same files return the
\* same ranked lists for the three categories, whatever the orders in which
\* the two scans listed the files.
C12_SameRankedLists ==
    (aCalls >= 2 /\ aOut.st = "ok" /\ aPrev.st = "ok") =>
        \A cat \in Categories : OutOf(aOut, cat) = OutOf(aPrev, cat)

\* C13: every ranked list holds the keys of its category by descending
\* frequency, keys of equal frequency in the order the scan met them first,
\* cut to the first 25 (technology), 20 (business) or 20 (topics) entries;
\* a key that is left out ranks behind the last key that is listed.
C13_RankedTruncated ==
    aOut.st = "ok" =>
        \A cat \in Categories :
            LET L == OutOf(aOut, cat)
                st == Met(cat)
            IN  /\ Len(L) = Min(TopOf(cat), Cardinality(Words(st)))
                /\ Listed(L) \subseteq Words(st)
                /\ \A j \in 1..(Len(L) - 1) :
                       RanksBefore(st, L[j][1].w, L[j + 1][1].w)
                /\ \A w \in Words(st) \ Listed(L) :
                       RanksBefore(st, L[Len(L)][1].w, w)

\* C13's case: two files with 2 * HalfList technology tags between them,
\* more than the limit; the most frequent tag, met last by the scan, is
\* listed first, the others follow in scan order and the list is cut.
C13_Witness ==
    /\ aOut.st = "ok"
    /\ aFiles[aOrder[1]].tech_tags = LowHalf
    /\ aFiles[aOrder[2]].tech_tags = HighHalf
    /\ Cardinality(Words(Met("tech_tags"))) > TopTech
    /\ Len(aOut.top_tech_themes) = TopTech
    /\ aOut.top_tech_themes[1] = <<Tag(2 * HalfList + 2, "lower"), 2>>
    /\ aOut.top_tech_themes[2] = <<Tag(3, "lower"), 1>>
    /\ Len(aOut.top_business_themes) = TopBusiness
    /\ Len(aOut.top_topics) = TopTopics

\* C14: the keys of every ranked list are lower-case texts, no two keys
\* are the same word, the count of a key is the number of occurrences of
\* its word, in any letter case, in the files without an "error" key, and
\* a list shorter than its limit holds every word that occurs.
C14_CaseFoldedCounts ==
    aOut.st = "ok" =>
        \A cat \in Categories :
            LET L == OutOf(aOut, cat)
                st == Met(cat)
            IN  /\ \A j \in 1..Len(L) :
                       /\ L[j][1].c = "lower"
                       /\ L[j][2] = Occ(st, L[j][1].w)
                /\ \A j, k \in 1..Len(L) : j # k => L[j][1].w # L[k][1].w
                /\ Len(L) < TopOf(cat) => Listed(L) = Words(st)

\* C14's case: word 1 is written "Title" in one file and "lower" in
\* another, and is listed once, in lower case, with count 2.
C14_Witness ==
    /\ aOut.st = "ok"
    /\ \E i, k \in Items :
          /\ i # k
          /\ aFiles[i].form = "object" /\ aFiles[i].tech_tags = Single
          /\ aFiles[k].form = "object" /\ aFiles[k].tech_tags = Pair
    /\ \E j \in 1..Len(aOut.top_tech_themes) :
          aOut.top_tech_themes[j] = <<Tag(1, "lower"), 2>>
====
